---- MODULE Spec2Model ----
(***************************************************************************)
(* Model of nihia.py, the host side of the NIHIA protocol: the functions   *)
(* that assemble MIDI messages and hand them to device.midiOutSysex.       *)
(*                                                                         *)
(* sent is the sequence of messages device.midiOutSysex has received.      *)
(* log is the history of the calls made to the module's functions: for     *)
(* each call its arguments, whether it raised, the branch it took and the  *)
(* messages it handed to the sink.                                         *)
(*                                                                         *)
(* Python values that may be an int, a list or None are modelled tagged:   *)
(* [t |-> "int" | "list" | "none", v |-> sequence of integers].            *)
(* Strings that are encoded (word, info) are sequences of code points;     *)
(* strings that only key a table (buttonName, info_type) are TLA+ strings. *)
(***************************************************************************)
EXTENDS Integers, Sequences, FiniteSets, TLC

VARIABLES sent, log

vars == <<sent, log>>

\* ------------------------------------------------------------------ bounds
\* number of calls in one behaviour of the session specification
MaxCalls == 2
\* longest display text of the single-call specification
MaxWordLen == 13

\* ----------------------------------------------------------- Python values
PyInt(n) == [t |-> "int", v |-> <<n>>]
PyList(s) == [t |-> "list", v |-> s]
PyNone == [t |-> "none", v |-> <<>>]

\* result of running a function body: the sink afterwards, and whether an
\* exception left the function
Returned(s) == [sink |-> s, raised |-> FALSE]
Raised(s) == [sink |-> s, raised |-> TRUE]

\* bytes(...) / bytearray(...) of a list: every element must be an int in
\* range(0, 256); None or a list raises TypeError, another int ValueError.
\* ok tells whether the conversion returned, b is the bytes object
IsByte(x) == x.t = "int" /\ x.v[1] \in 0..255

pyBytes_wrap(l) ==
  [ ok |-> \A i \in 1..Len(l) : l[i].t = "int",
    b  |-> [i \in 1..Len(l) |-> IF l[i].t = "int" THEN l[i].v[1] % 256 ELSE 0] ]

pyBytes(l) ==
  [ ok |-> \A i \in 1..Len(l) : IsByte(l[i]),
    b  |-> [i \in 1..Len(l) |-> IF IsByte(l[i]) THEN l[i].v[1] ELSE 0] ]

\* device.midiOutSysex(message): the transport sink receives one message
midiOutSysex(s, message) == Append(s, message)

\* ------------------------------------------------------------------ tables
buttons ==
  [ PLAY |-> PyInt(16), RESTART |-> PyInt(17), REC |-> PyInt(18), COUNT_IN |-> PyInt(19),
    STOP |-> PyInt(20), CLEAR |-> PyInt(21), LOOP |-> PyInt(22), METRO |-> PyInt(23),
    TEMPO |-> PyInt(24), UNDO |-> PyInt(32), REDO |-> PyInt(33), QUANTIZE |-> PyInt(34),
    AUTO |-> PyInt(35), MUTE |-> PyInt(67), SOLO |-> PyInt(68),
    ENCODER_BUTTON |-> PyInt(96), ENCODER_RIGHT |-> PyList(<<50, 1>>),
    ENCODER_LEFT |-> PyList(<<50, 127>>), ENCODER_UP |-> PyList(<<48, 127>>),
    ENCODER_DOWN |-> PyList(<<48, 1>>), ENCODER_PLUS |-> PyList(<<52, 1>>),
    ENCODER_MINUS |-> PyList(<<52, 127>>), ENCODER_HORIZONTAL |-> PyInt(50),
    ENCODER_VERTICAL |-> PyInt(48), ENCODER_SPIN |-> PyInt(52) ]
    @@ ("SHIFT+ENCODER_BUTTON" :> PyInt(97))

lightModes == (0 :> PyInt(0)) @@ (1 :> PyInt(1))

mixerinfo_types ==
  [ VOLUME |-> PyInt(70), PAN |-> PyInt(71), IS_MUTE |-> PyInt(67), IS_SOLO |-> PyInt(68),
    NAME |-> PyInt(72), EXIST |-> PyInt(64), SELECTED |-> PyInt(66) ]

\* dict.get(key): the value, or None when the key is absent
dictGet_zero(d, k) == IF k \in DOMAIN d THEN d[k] ELSE PyInt(0)
dictGet(d, k) == IF k \in DOMAIN d THEN d[k] ELSE PyNone

\* ----------------------------------------------------------------- dataOut
dataOut_term(s, data1, data2) ==
  LET convertmsg == <<PyInt(240), PyInt(191), data1, data2, PyInt(247)>>
  IN  IF pyBytes(convertmsg).ok THEN Returned(midiOutSysex(s, pyBytes(convertmsg).b))
      ELSE Raised(s)

dataOut(s, data1, data2) ==
  LET convertmsg == <<PyInt(240), PyInt(191), data1, data2>>
  IN  IF pyBytes(convertmsg).ok THEN Returned(midiOutSysex(s, pyBytes(convertmsg).b))
      ELSE Raised(s)

\* --------------------------------------------------------------- handshake
initiate(s) == dataOut(s, PyInt(1), PyInt(1))

terminate(s) == dataOut(s, PyInt(2), PyInt(1))

\* a second statement runs only when the first did not raise
restartProtocol_rev(s) ==
  LET r == initiate(s) IN IF r.raised THEN r ELSE terminate(r.sink)

restartProtocol(s) ==
  LET r == terminate(s) IN IF r.raised THEN r ELSE initiate(r.sink)

\* ---------------------------------------------------------- buttonSetLight
buttonSetLight_swap(s, buttonName, lightMode) ==
  dataOut(s, dictGet(lightModes, lightMode), dictGet(buttons, buttonName))

buttonSetLight(s, buttonName, lightMode) ==
  dataOut(s, dictGet(buttons, buttonName), dictGet(lightModes, lightMode))

\* --------------------------------------------------------------- KPrntScrn
\* a list of ints as a list of Python values
PyInts(q) == [i \in 1..Len(q) |-> PyInt(q[i])]

\* the header list KPrntScrn starts from; header_acc is a header kept across
\* calls, which still holds what the last display message appended to it
header_acc ==
  IF sent # <<>> /\ Len(sent[Len(sent)]) > 14 /\ sent[Len(sent)][11] = 72
  THEN sent[Len(sent)]
  ELSE <<240, 0, 33, 9, 0, 0, 68, 67, 1, 0, 72, 0>>

header == <<240, 0, 33, 9, 0, 0, 68, 67, 1, 0, 72, 0>>

\* ord(c): a character of word is modelled by its code point
ord(c) == c

\* the code points KPrntScrn keeps: all of a word of at most 10 letters,
\* the first 11 of a longer one
lettersh_10(letters) ==
  IF Len(letters) <= 10
  THEN [n \in 1..Len(letters) |-> ord(letters[n])]
  ELSE [n \in 1..10 |-> ord(letters[n])]

lettersh(letters) ==
  IF Len(letters) <= 10
  THEN [n \in 1..Len(letters) |-> ord(letters[n])]
  ELSE [n \in 1..11 |-> ord(letters[n])]

KPrntScrn(s, trkn, word, delaytime) ==
  LET full == PyInts(header) \o <<PyInt(trkn)>> \o PyInts(lettersh(word)) \o <<PyInt(247)>>
  IN  IF pyBytes(full).ok THEN Returned(midiOutSysex(s, pyBytes(full).b))
      ELSE Raised(s)

\* ----------------------------------------------------------- mixerSendInfo
\* str.encode("UTF-8"): the bytes of one code point; a surrogate raises
utf8Char(c) ==
  IF c < 128 THEN <<c>>
  ELSE IF c < 2048 THEN <<192 + (c \div 64), 128 + (c % 64)>>
  ELSE IF c < 65536
       THEN <<224 + (c \div 4096), 128 + ((c \div 64) % 64), 128 + (c % 64)>>
  ELSE <<240 + (c \div 262144), 128 + ((c \div 4096) % 64),
         128 + ((c \div 64) % 64), 128 + (c % 64)>>

RECURSIVE utf8Bytes(_)
utf8Bytes(str) ==
  IF str = <<>> THEN <<>> ELSE utf8Char(Head(str)) \o utf8Bytes(Tail(str))

utf8Ok(str) == \A i \in 1..Len(str) : str[i] \notin 55296..57343

\* kwargs.get("value", 0) and kwargs.get("info", None)
kwargsValue(kwargs) == IF kwargs.hasValue THEN PyInt(kwargs.value) ELSE PyInt(0)

\* info != None
infoGiven_truthy(kwargs) == kwargs.hasInfo /\ kwargs.info # <<>>

infoGiven(kwargs) == kwargs.hasInfo

\* the message of the branch with info
textMsg_late(id, value, trackID, info) ==
  PyInts(<<240, 0, 33, 9, 0, 0, 68, 67, 1, 0>>) \o <<id, value>>
    \o PyInts(info) \o <<PyInt(trackID), PyInt(247)>>

textMsg(id, value, trackID, info) ==
  PyInts(<<240, 0, 33, 9, 0, 0, 68, 67, 1, 0>>) \o <<id, value, PyInt(trackID)>>
    \o PyInts(info) \o <<PyInt(247)>>

\* the message of the branch without info
plainMsg_swap(id, value, trackID) ==
  PyInts(<<240, 0, 33, 9, 0, 0, 68, 67, 1, 0>>) \o <<id, PyInt(trackID), value, PyInt(247)>>

plainMsg(id, value, trackID) ==
  PyInts(<<240, 0, 33, 9, 0, 0, 68, 67, 1, 0>>) \o <<id, value, PyInt(trackID), PyInt(247)>>

mixerBranch(kwargs) == IF infoGiven(kwargs) THEN "text" ELSE "plain"

mixerSendInfo(s, info_type, trackID, kwargs) ==
  LET value == kwargsValue(kwargs)
      id == dictGet(mixerinfo_types, info_type)
  IN  IF infoGiven(kwargs)
      THEN IF ~utf8Ok(kwargs.info) THEN Raised(s)
           ELSE LET msg == textMsg(id, value, trackID, utf8Bytes(kwargs.info))
                IN  IF pyBytes(msg).ok THEN Returned(midiOutSysex(s, pyBytes(msg).b))
                    ELSE Raised(s)
      ELSE LET msg == plainMsg(id, value, trackID)
           IN  IF pyBytes(msg).ok THEN Returned(midiOutSysex(s, pyBytes(msg).b))
               ELSE Raised(s)

\* ------------------------------------------------------------------- calls
\* the arguments of a call, one shape for every function
Args(op, name, n1, n2, hasValue, hasInfo, text) ==
  [op |-> op, name |-> name, n1 |-> n1, n2 |-> n2,
   hasValue |-> hasValue, hasInfo |-> hasInfo, text |-> text]

\* a call ran to result r: the sink is what it left, the log gains the call
Call(c, r, branch) ==
  /\ sent' = r.sink
  /\ log' = Append(log, [call |-> c, raised |-> r.raised, branch |-> branch,
                         sentBy |-> SubSeq(r.sink, Len(sent) + 1, Len(r.sink))])

CallDataOut(data1, data2) ==
  Call(Args("dataOut", "", data1, data2, FALSE, FALSE, <<>>),
       dataOut(sent, PyInt(data1), PyInt(data2)), "")

CallInitiate ==
  Call(Args("initiate", "", 0, 0, FALSE, FALSE, <<>>), initiate(sent), "")

CallTerminate ==
  Call(Args("terminate", "", 0, 0, FALSE, FALSE, <<>>), terminate(sent), "")

CallRestartProtocol ==
  Call(Args("restartProtocol", "", 0, 0, FALSE, FALSE, <<>>), restartProtocol(sent), "")

CallButtonSetLight(buttonName, lightMode) ==
  Call(Args("buttonSetLight", buttonName, lightMode, 0, FALSE, FALSE, <<>>),
       buttonSetLight(sent, buttonName, lightMode), "")

CallKPrntScrn(trkn, word, delaytime) ==
  Call(Args("KPrntScrn", "", trkn, delaytime, FALSE, FALSE, word),
       KPrntScrn(sent, trkn, word, delaytime), "")

CallMixerSendInfo(info_type, trackID, kwargs) ==
  Call(Args("mixerSendInfo", info_type, trackID, kwargs.value,
            kwargs.hasValue, kwargs.hasInfo, kwargs.info),
       mixerSendInfo(sent, info_type, trackID, kwargs), mixerBranch(kwargs))

\* ------------------------------------------------------------------ inputs
\* "HELLOWORLD", "HELLOWORLD!", "HELLOWORLD!!", "Kick"
HELLOWORLD == <<72, 69, 76, 76, 79, 87, 79, 82, 76, 68>>
Kick == <<75, 105, 99, 107>>

\* keyword arguments: value and info each given or omitted
Kwargs(values, infos) ==
  { [hasValue |-> hv, value |-> v, hasInfo |-> hi, info |-> t] :
      hv \in BOOLEAN, v \in values, hi \in BOOLEAN, t \in infos }

KwargsOf(values, infos) ==
  { k \in Kwargs(values \cup {0}, infos \cup {<<>>}) :
      /\ k.hasValue => k.value \in values
      /\ ~k.hasValue => k.value = 0
      /\ k.hasInfo => k.info \in infos
      /\ ~k.hasInfo => k.info = <<>> }

\* inputs of the session specification
SessionBytes == {1, 256}
SessionButtons == {"PLAY", "ENCODER_RIGHT", "BOGUS"}
SessionModes == {0, 1, 2}
SessionSlots == {0, 256}
SessionWords ==
  {<<>>, HELLOWORLD, HELLOWORLD \o <<33>>, HELLOWORLD \o <<33, 33>>, <<72, 8364>>}
SessionKinds == {"IS_MUTE", "NAME", "BOGUS"}
SessionTracks == {2, 3}
SessionKwargs == KwargsOf({1, 256}, {<<>>, Kick})

\* inputs of the single-call specification
\* a word of n letters, all different, the p-th (if any) replaced by c
Word(n, p, c) == [i \in 1..n |-> IF i = p THEN c ELSE 64 + i]
Words == { Word(n, p, c) : n \in 0..MaxWordLen, p \in 0..MaxWordLen, c \in {255, 256, 8364} }
AllButtons == DOMAIN buttons \cup {"BOGUS", "play"}
AllModes == -1..2
AllSlots == (-1..8) \cup {255, 256}
AllKinds == DOMAIN mixerinfo_types \cup {"BOGUS", "name"}
AllTracks == (-1..8) \cup {255, 256}
\* "", "Kick", "e-acute", "euro sign", "grinning face", a lone surrogate
AllInfos == {<<>>, Kick, <<233>>, <<75, 8364>>, <<128512>>, <<75, 55296>>}
AllKwargs == KwargsOf(-1..256, AllInfos)

\* ---------------------------------------------------------- specifications
Init == sent = <<>> /\ log = <<>>

\* a session: any MaxCalls calls, one after the other
MoreCalls == Len(log) < MaxCalls

SessionDataOut ==
  MoreCalls /\ \E d1 \in SessionBytes, d2 \in SessionBytes : CallDataOut(d1, d2)

SessionInitiate == MoreCalls /\ CallInitiate

SessionTerminate == MoreCalls /\ CallTerminate

SessionRestartProtocol == MoreCalls /\ CallRestartProtocol

SessionButtonSetLight ==
  MoreCalls /\ \E b \in SessionButtons, m \in SessionModes : CallButtonSetLight(b, m)

SessionKPrntScrn ==
  MoreCalls /\ \E t \in SessionSlots, w \in SessionWords : CallKPrntScrn(t, w, 0)

SessionMixerSendInfo ==
  MoreCalls /\ \E k \in SessionKinds, t \in SessionTracks, kw \in SessionKwargs :
                 CallMixerSendInfo(k, t, kw)

Next ==
  \/ SessionDataOut
  \/ SessionInitiate
  \/ SessionTerminate
  \/ SessionRestartProtocol
  \/ SessionButtonSetLight
  \/ SessionKPrntScrn
  \/ SessionMixerSendInfo

Spec == Init /\ [][Next]_vars

\* one call on a fresh sink, its arguments drawn from the wide sets
FirstCall == log = <<>>

SingleDataOut ==
  FirstCall /\ \E d1 \in -1..256, d2 \in {-1, 0, 1, 127, 255, 256} : CallDataOut(d1, d2)

SingleInitiate == FirstCall /\ CallInitiate

SingleTerminate == FirstCall /\ CallTerminate

SingleRestartProtocol == FirstCall /\ CallRestartProtocol

SingleButtonSetLight ==
  FirstCall /\ \E b \in AllButtons, m \in AllModes : CallButtonSetLight(b, m)

SingleKPrntScrn ==
  FirstCall /\ \E t \in AllSlots, w \in Words, d \in {0, 100} : CallKPrntScrn(t, w, d)

SingleMixerSendInfo ==
  FirstCall /\ \E k \in AllKinds, t \in AllTracks, kw \in AllKwargs :
                 CallMixerSendInfo(k, t, kw)

NextSingle ==
  \/ SingleDataOut
  \/ SingleInitiate
  \/ SingleTerminate
  \/ SingleRestartProtocol
  \/ SingleButtonSetLight
  \/ SingleKPrntScrn
  \/ SingleMixerSendInfo

SpecSingle == Init /\ [][NextSingle]_vars

\* ------------------------------------------------------------- properties
\* the messages the calls log[1..n] handed to the sink, in order
RECURSIVE SentBy(_)
SentBy(n) == IF n = 0 THEN <<>> ELSE SentBy(n - 1) \o log[n].sentBy

Calls == 1..Len(log)
Min(a, b) == IF a <= b THEN a ELSE b
TerminateFrame == <<240, 191, 2, 1>>
InitiateFrame == <<240, 191, 1, 1>>
SysexPreamble == <<240, 0, 33, 9, 0, 0, 68, 67, 1, 0>>
DisplayHeader == <<240, 0, 33, 9, 0, 0, 68, 67, 1, 0, 72, 0>>
MotionEvents ==
  {"ENCODER_RIGHT", "ENCODER_LEFT", "ENCODER_UP", "ENCODER_DOWN", "ENCODER_PLUS",
   "ENCODER_MINUS"}
\* the value byte a mixerSendInfo call asks for
ValueOf(c) == IF c.hasValue THEN c.n2 ELSE 0
\* the UTF-8 bytes of the info texts, written out
Utf8Of(t) ==
  CASE t = <<>> -> <<>>
    [] t = Kick -> <<75, 105, 99, 107>>
    [] t = <<233>> -> <<195, 169>>
    [] t = <<75, 8364>> -> <<75, 226, 130, 172>>
    [] t = <<128512>> -> <<240, 159, 152, 128>>

\* C1: every restartProtocol() call hands the sink exactly two messages, the
\* terminate frame and right after it the initiate frame, nothing between
\* them and never the other way round.
C1_RestartTerminateThenInitiate ==
  \A i \in Calls :
    log[i].call.op = "restartProtocol" =>
      LET at == Len(SentBy(i - 1))
      IN  /\ ~log[i].raised
          /\ Len(log[i].sentBy) = 2
          /\ Len(sent) >= at + 2
          /\ sent[at + 1] = TerminateFrame
          /\ sent[at + 2] = InitiateFrame
          /\ Len(SentBy(i)) = at + 2

C1_Witness ==
  \E i \in Calls :
    /\ i > 1
    /\ log[i].call.op = "restartProtocol"
    /\ log[i - 1].sentBy # <<>>
    /\ Len(sent) = Len(log[i - 1].sentBy) + 2

\* C2 as claimed: for every key of the buttons table, the six encoder-motion
\* events included, and every light state in {0,1}, buttonSetLight sends
\* exactly the frame [0xF0,0xBF,data1,data2] of the tables.
C2_EveryKeySendsFrame ==
  \A i \in Calls :
    LET c == log[i].call IN
    (c.op = "buttonSetLight" /\ c.name \in DOMAIN buttons /\ c.n1 \in {0, 1}) =>
      /\ ~log[i].raised
      /\ Len(log[i].sentBy) = 1
      /\ Len(log[i].sentBy[1]) = 4
      /\ SubSeq(log[i].sentBy[1], 1, 3) = <<240, 191, buttons[c.name].v[1]>>

\* C2 as amended: for every key of the buttons table whose entry is a single
\* integer (every key but the six encoder-motion events) and every light
\* state in {0,1}, buttonSetLight sends exactly [0xF0,0xBF,data1,state];
\* for the six encoder-motion events, whose entries are lists, the call
\* raises and sends nothing.
C2_IntegerKeysSendFrame ==
  \A i \in Calls :
    LET c == log[i].call IN
    (c.op = "buttonSetLight" /\ c.name \in DOMAIN buttons /\ c.n1 \in {0, 1}) =>
      IF c.name \in MotionEvents
      THEN log[i].raised /\ log[i].sentBy = <<>> /\ buttons[c.name].t = "list"
      ELSE /\ ~log[i].raised
           /\ buttons[c.name].t = "int"
           /\ log[i].sentBy = << <<240, 191, buttons[c.name].v[1], c.n1>> >>

C2_Witness ==
  \E i \in Calls :
    /\ log[i].call.op = "buttonSetLight"
    /\ log[i].call.name = "SOLO"
    /\ log[i].call.n1 = 1
    /\ sent = << <<240, 191, 68, 1>> >>

C4_UnknownIdentifierFails ==
  \A i \in Calls :
    LET c == log[i].call IN
    (\/ c.op = "buttonSetLight" /\ (c.name \notin DOMAIN buttons \/ c.n1 \notin {0, 1})
     \/ c.op = "mixerSendInfo" /\ c.name \notin DOMAIN mixerinfo_types) =>
      log[i].raised /\ log[i].sentBy = <<>> /\ sent = SentBy(i - 1)

C4_Witness ==
  \E i \in Calls :
    /\ log[i].call.op = "mixerSendInfo"
    /\ log[i].call.name = "BOGUS"
    /\ log[i].call.n1 \in 0..7
    /\ ValueOf(log[i].call) \in 0..1
    /\ log[i].raised
    /\ sent = <<>>

\* a whole message: bytes only, and one of the two frame shapes
WholeFrame(f) ==
  /\ \A k \in 1..Len(f) : f[k] \in 0..255
  /\ \/ Len(f) = 4 /\ SubSeq(f, 1, 2) = <<240, 191>>
     \/ Len(f) >= 14 /\ SubSeq(f, 1, 10) = SysexPreamble /\ f[Len(f)] = 247

\* a call one of whose fields is outside 0..255
FieldOutOfRange(c) ==
  \/ c.op = "dataOut" /\ (c.n1 \notin 0..255 \/ c.n2 \notin 0..255)
  \/ c.op = "KPrntScrn" /\
       (c.n1 \notin 0..255 \/ \E k \in 1..Min(Len(c.text), 11) : c.text[k] > 255)
  \/ c.op = "mixerSendInfo" /\ (c.n1 \notin 0..255 \/ ValueOf(c) \notin 0..255)

\* C5: every call of dataOut, KPrntScrn, buttonSetLight or mixerSendInfo
\* hands the sink one whole frame or nothing; with a field outside 0..255
\* or a display-text code point above 255 it hands nothing, and the
\* messages sent before stay as they were.
C5_WholeFrameOrNothing ==
  /\ sent = SentBy(Len(log))
  /\ \A i \in Calls :
       log[i].call.op \in {"dataOut", "KPrntScrn", "buttonSetLight", "mixerSendInfo"} =>
         /\ IF log[i].raised THEN log[i].sentBy = <<>>
            ELSE Len(log[i].sentBy) = 1 /\ WholeFrame(log[i].sentBy[1])
         /\ FieldOutOfRange(log[i].call) => log[i].raised /\ log[i].sentBy = <<>>

C5_Witness ==
  \E i \in Calls :
    /\ i > 1
    /\ log[i].call.op = "KPrntScrn"
    /\ log[i].call.text = <<72, 8364>>
    /\ log[i].raised
    /\ sent # <<>>
    /\ sent = log[i - 1].sentBy

\* C6: initiate() always sends the single frame [0xF0,0xBF,0x01,0x01] and
\* terminate() the single frame [0xF0,0xBF,0x02,0x01], four bytes without a
\* terminator, whatever was sent before.
C6_HandshakeFrames ==
  \A i \in Calls :
    /\ log[i].call.op = "initiate" =>
         ~log[i].raised /\ log[i].sentBy = <<InitiateFrame>>
           /\ sent[Len(SentBy(i))] = <<240, 191, 1, 1>>
    /\ log[i].call.op = "terminate" =>
         ~log[i].raised /\ log[i].sentBy = <<TerminateFrame>>
           /\ sent[Len(SentBy(i))] = <<240, 191, 2, 1>>

C6_Witness ==
  /\ Len(log) >= 2
  /\ log[1].call.op = "terminate"
  /\ log[2].call.op = "initiate"
  /\ SubSeq(sent, 1, 2) = <<TerminateFrame, InitiateFrame>>

\* C7: for every kind of the table, every track in 0..7 and every value in
\* 0..255 (0 when omitted), mixerSendInfo without info sends exactly the 14
\* bytes F0 00 21 09 00 00 44 43 01 00, identifier, value, track, F7.
C7_MixerPlainFrame ==
  \A i \in Calls :
    LET c == log[i].call IN
    (c.op = "mixerSendInfo" /\ ~c.hasInfo /\ c.name \in DOMAIN mixerinfo_types
       /\ c.n1 \in 0..7 /\ ValueOf(c) \in 0..255) =>
      /\ ~log[i].raised
      /\ log[i].sentBy =
           << SysexPreamble \o <<mixerinfo_types[c.name].v[1], ValueOf(c), c.n1, 247>> >>
      /\ (c.name = "IS_MUTE" /\ c.n1 = 3 /\ ValueOf(c) = 1) =>
           sent = << <<240, 0, 33, 9, 0, 0, 68, 67, 1, 0, 67, 1, 3, 247>> >>

C7_Witness ==
  \E i \in Calls :
    /\ log[i].call.op = "mixerSendInfo"
    /\ log[i].call.name = "SELECTED"
    /\ ~log[i].call.hasInfo
    /\ ~log[i].call.hasValue
    /\ sent = << <<240, 0, 33, 9, 0, 0, 68, 67, 1, 0, 66, 0, 7, 247>> >>

\* C8: with info given, the frame is the 10-byte header, identifier, value,
\* track, then the bytes of info, whole and in order, then 0xF7 as the last
\* byte; its length is 14 plus the number of info bytes.
C8_MixerTextFrame ==
  \A i \in Calls :
    LET c == log[i].call IN
    (c.op = "mixerSendInfo" /\ c.hasInfo /\ c.name \in DOMAIN mixerinfo_types
       /\ c.n1 \in 0..255 /\ ValueOf(c) \in 0..255 /\ utf8Ok(c.text)) =>
      /\ ~log[i].raised
      /\ Len(log[i].sentBy) = 1
      /\ LET f == log[i].sentBy[1] IN
           /\ Len(f) = 14 + Len(Utf8Of(c.text))
           /\ SubSeq(f, 1, 10) = SysexPreamble
           /\ SubSeq(f, 11, 13) = <<mixerinfo_types[c.name].v[1], ValueOf(c), c.n1>>
           /\ SubSeq(f, 14, Len(f) - 1) = Utf8Of(c.text)
           /\ f[Len(f)] = 247

C8_Witness ==
  \E i \in Calls :
    /\ log[i].call.op = "mixerSendInfo"
    /\ log[i].call.name = "NAME"
    /\ log[i].call.hasInfo
    /\ sent = << <<240, 0, 33, 9, 0, 0, 68, 67, 1, 0, 72, 0, 2, 75, 105, 99, 107, 247>> >>

C10_EmptyInfoSameAsAbsent ==
  /\ \A i \in Calls :
       log[i].call.op = "mixerSendInfo" =>
         log[i].branch = IF log[i].call.hasInfo THEN "text" ELSE "plain"
  /\ \A i \in Calls, j \in Calls :
       LET c == log[i].call
           d == log[j].call
       IN  (c.op = "mixerSendInfo" /\ d.op = "mixerSendInfo" /\ c.name = d.name
              /\ c.n1 = d.n1 /\ ValueOf(c) = ValueOf(d) /\ ~c.hasInfo /\ d.hasInfo
              /\ utf8Ok(d.text)) =>
             /\ log[i].raised = log[j].raised
             /\ d.text = <<>> => log[i].sentBy = log[j].sentBy
             /\ ~log[i].raised =>
                  LET f == log[i].sentBy[1]
                      g == log[j].sentBy[1]
                  IN  g = SubSeq(f, 1, 13) \o Utf8Of(d.text) \o <<f[14]>>

C10_Witness ==
  /\ Len(log) >= 2
  /\ log[1].call.op = "mixerSendInfo"
  /\ log[2].call.op = "mixerSendInfo"
  /\ ~log[1].call.hasInfo
  /\ log[2].call.hasInfo /\ log[2].call.text = <<>>
  /\ log[2].branch = "text"
  /\ sent = <<log[1].sentBy[1], log[1].sentBy[1]>>

====
